---- MODULE Spec2Model ----
(***************************************************************************)
(* Model of backend/utils/db_handler.py: the MongoHandler singleton, the   *)
(* users collection (register_google_user, verify_auth_token) and the      *)
(* conversations collection (new_conversation, get_prompt_suggestions,     *)
(* get_chat_history, update_chat_history, verify_conversation).            *)
(*                                                                         *)
(* Every pymongo call (find_one, insert_one, update_one) is one atomic     *)
(* step against the store.  register_google_user makes two such calls, so  *)
(* it is modelled as several steps that other threads may interleave with. *)
(* Python strings that the code parses or formats (ObjectId text, session  *)
(* tokens, credentials) are sequences of character codes: 0..15 are the    *)
(* hex digits, Colon is ':' and NonHex is any other character.             *)
(***************************************************************************)
EXTENDS Integers, Sequences, FiniteSets, TLC

\* ---------------------------------------------------------------- bounds
NumLogins == 2       \* register_google_user calls, each in a thread of its own
NumCallers == 2      \* threads calling MongoHandler(uri) at process start
MaxConvs == 1        \* documents the conversations collection may hold
NumUpdaters == 2     \* threads calling update_chat_history concurrently

\* ------------------------------------------------------ program constants
OidHexLen == 24      \* str(ObjectId) is 24 hex characters
TokenBytes == 16     \* secrets.token_hex(16)
Colon == 16          \* the ':' of the credential f-string
NonHex == 17         \* a character that is not a hex digit

Logins == 1..NumLogins
Callers == 1..NumCallers
Updaters == 1..NumUpdaters

\* Python None for str-typed arguments (google_sub, email)
None == "<None>"
GoogleSubs == {"g1", "g2"}
Emails == {"a@x", "b@x"}
Uris == {"mongodb://a", "mongodb://b"}

\* ------------------------------------------------------------- ObjectId
RECURSIVE HexDigit(_, _)
\* the hex digit of n with weight 16^k
HexDigit(n, k) == IF k = 0 THEN n % 16 ELSE HexDigit(n \div 16, k - 1)

\* n written as len hex digits, most significant first
ToHex(n, len) == [i \in 1..len |-> HexDigit(n, len - i)]

RECURSIVE HexValue(_, _)
\* the number the first k hex digits of s write
HexValue(s, k) == IF k = 0 THEN 0 ELSE 16 * HexValue(s, k - 1) + s[k]

FromHex(s) == HexValue(s, Len(s))

\* str(ObjectId)
ObjectIdStr(oid) == ToHex(oid, OidHexLen)

\* bson.ObjectId.is_valid for a str argument
ObjectIdValid(s) == s \in [1..OidHexLen -> 0..15]

\* ObjectId(s) for a valid s
ObjectId(s) == FromHex(s)

\* InvalidId raised by ObjectId(s) for an invalid s
InvalidId(s) == [exc |-> "InvalidId", arg |-> s]

\* TypeError raised by None["field"]
NoneSubscript == [exc |-> "TypeError", arg |-> <<>>]

\* -------------------------------------------------------- session tokens
\* the values of secrets.token_hex(16) the logins get: 32 hex characters each
Tokens == {ToHex(k, 2 * TokenBytes) : k \in Logins}

\* ------------------------------------------------------------- messages
SystemContent == "You are Askage, a Chrome extension that answers user questions based on webpage content. Always be polite, but reply with only the necessary information. Use minimal words, avoid complete sentences unless required. No explanations unless asked. Use plain text, no markdown or formatting. Paragraph form only. No bullet points, no lists."

SystemMessage == [role |-> "system", content |-> SystemContent]

\* ----------------------------------------------------------- input sets
\* strings a caller may pass as user_id / conversation_id
BadId == <<NonHex>>
\* every _id a users document may get, one that none gets, and a malformed one
UserIdInputs == {ObjectIdStr(o) : o \in 1..(NumLogins + 1)} \cup {BadId}
\* the same for the conversations collection
ConvIdInputs == {ObjectIdStr(o) : o \in 1..(MaxConvs + 1)} \cup {BadId}
\* the user_id values callers pass to the conversation operations
OwnerInputs == {ObjectIdStr(1), ObjectIdStr(2)}
\* the session_token values callers present: every token and the empty string
TokenInputs == Tokens \cup {<<>>}
SubInputs == GoogleSubs \cup {"", None}
EmailInputs == Emails \cup {"", None}
SuggestionInputs == {<<>>, <<"s1", "s2">>}
HistoryInputs ==
    { <<>>, <<SystemMessage, [role |-> "user", content |-> "q"]>> }

VARIABLES
    instance,       \* cls._instance: 0 is None, c the object caller c created
    client,         \* cls._client: 0 unset, k the k-th MongoClient built
    db,             \* cls.db: 0 is None, k the "askage" database of client k
    clients,        \* the uri of every MongoClient constructed, in order
    newpc,          \* position of each caller inside __new__
    newuri,         \* the uri each caller passed
    handle,         \* what __new__ returned to each caller, and cls.db then
    users,          \* users collection: _id -> document
    conversations,  \* conversations collection: _id -> document
    nextOid,        \* next ObjectId the driver generates
    pc,             \* position of each login inside register_google_user
    reg,            \* locals of register_google_user per login
    issued,         \* credentials returned so far, in order of return
    last,           \* the operation that completed last and its outcome
    upd             \* position, arguments and outcome of each updater thread

vars == <<instance, client, db, clients, newpc, newuri, handle, users, conversations,
          nextOid, pc, reg, issued, last, upd>>

handleVars == <<instance, client, db, clients, newpc, newuri, handle>>
storeVars == <<users, conversations, nextOid>>
regVars == <<pc, reg, issued>>
dataVars == <<users, conversations, nextOid, pc, reg, issued, last, upd>>

\* ------------------------------------------------------------- outcomes
Return(v) == [kind |-> "return", val |-> v]
Raise(e) == [kind |-> "raise", err |-> e]

\* an updater thread that is not inside update_chat_history
NoUpdLocals == [pc |-> "idle", args |-> <<>>, out |-> Return(FALSE)]

NoRegLocals == [google_sub |-> "", email |-> "", session_token |-> <<>>,
                existing_user |-> 0]

\* a test for None alone in place of `not x`
Falsy_NoneOnly(x) == x = None

\* Python truthiness of a str-or-None argument: `not x`
Falsy(x) == x = None \/ x = ""

\* ------------------------------------------------------ users collection
\* collection.find_one({"google_sub": google_sub}): the first matching
\* document in natural (insertion) order, 0 for None
FindUserBySub(google_sub) ==
    LET m == {o \in DOMAIN users : users[o].google_sub = google_sub}
    IN IF m = {} THEN 0 ELSE CHOOSE o \in m : \A q \in m : o <= q

\* f"{str(_id)}:{session_token}"
Credential(oid, session_token) == ObjectIdStr(oid) \o <<Colon>> \o session_token

\* the caller's split of a credential on its first ':'
SepPos(cred) == CHOOSE i \in 1..Len(cred) :
                    cred[i] = Colon /\ \A j \in 1..(i - 1) : cred[j] # Colon
CredUserId(cred) == SubSeq(cred, 1, SepPos(cred) - 1)
CredToken(cred) == SubSeq(cred, SepPos(cred) + 1, Len(cred))

\* verify_auth_token without the comparison of the stored session_token
verify_auth_token_UserOnly(user_id, session_token) ==
    IF ~ObjectIdValid(user_id) THEN Raise(InvalidId(user_id))
    ELSE Return(ObjectId(user_id) \in DOMAIN users)

\* verify_auth_token(user_id, session_token)
verify_auth_token(user_id, session_token) ==
    IF ~ObjectIdValid(user_id) THEN Raise(InvalidId(user_id))
    ELSE LET oid == ObjectId(user_id)
         IN Return(oid \in DOMAIN users
                   /\ users[oid].session_token = session_token)

\* generate_session_token() as called by login t.  token_hex(16) draws 128
\* random bits and the method's contract is "a unique session token": every
\* call gets a value of its own, and tokens are only ever compared for equality
generate_session_token(t) == ToHex(t, 2 * TokenBytes)

\* register_google_user, lines 41-44: validation and token generation
RegStart(t, google_sub, email) ==
    /\ pc[t] = "idle"
    /\ IF Falsy(google_sub) \/ Falsy(email)
       THEN /\ last' = [op |-> "register_google_user",
                        args |-> <<google_sub, email>>,
                        out |-> Raise([exc |-> "Exception", arg |-> <<>>])]
            /\ pc' = [pc EXCEPT ![t] = "done"]
            /\ UNCHANGED <<reg, issued>>
       ELSE /\ reg' = [reg EXCEPT ![t] =
                           [google_sub |-> google_sub, email |-> email,
                            session_token |-> generate_session_token(t),
                            existing_user |-> 0]]
            /\ pc' = [pc EXCEPT ![t] = "find_one"]
            /\ UNCHANGED <<issued, last>>
    /\ UNCHANGED <<handleVars, upd, storeVars>>

\* register_google_user, lines 46-48: the lookup by google_sub
RegFind(t) ==
    /\ pc[t] = "find_one"
    /\ LET existing_user == FindUserBySub(reg[t].google_sub)
       IN /\ reg' = [reg EXCEPT ![t].existing_user = existing_user]
          /\ pc' = [pc EXCEPT ![t] =
                      IF existing_user # 0 THEN "update_one" ELSE "insert_one"]
    /\ UNCHANGED <<handleVars, upd, storeVars, issued, last>>

\* the return statement of register_google_user
RegReturn(t, oid) ==
    LET cred == Credential(oid, reg[t].session_token)
    IN /\ last' = [op |-> "register_google_user",
                   args |-> <<reg[t].google_sub, reg[t].email>>,
                   out |-> Return(cred)]
       /\ issued' = Append(issued, [google_sub |-> reg[t].google_sub,
                                    cred |-> cred])
       /\ pc' = [pc EXCEPT ![t] = "done"]
       /\ reg' = [reg EXCEPT ![t] = NoRegLocals]

\* an update_one whose $set leaves out the email
RegUpdate_TokenOnly(t) ==
    /\ pc[t] = "update_one"
    /\ LET oid == reg[t].existing_user
       IN /\ users' = IF oid \in DOMAIN users
                      THEN [users EXCEPT
                              ![oid].session_token = reg[t].session_token]
                      ELSE users
          /\ RegReturn(t, oid)
    /\ UNCHANGED <<handleVars, upd, conversations, nextOid>>

\* register_google_user, lines 49-54: update_one by _id and return
RegUpdate(t) ==
    /\ pc[t] = "update_one"
    /\ LET oid == reg[t].existing_user
       IN /\ users' = IF oid \in DOMAIN users
                      THEN [users EXCEPT
                              ![oid].session_token = reg[t].session_token,
                              ![oid].email = reg[t].email]
                      ELSE users
          /\ RegReturn(t, oid)
    /\ UNCHANGED <<handleVars, upd, conversations, nextOid>>

\* register_google_user, lines 57-63: insert_one and return
RegInsert(t) ==
    /\ pc[t] = "insert_one"
    /\ users' = [o \in DOMAIN users \cup {nextOid} |->
                   IF o = nextOid
                   THEN [google_sub |-> reg[t].google_sub,
                         session_token |-> reg[t].session_token,
                         email |-> reg[t].email]
                   ELSE users[o]]
    /\ nextOid' = nextOid + 1
    /\ RegReturn(t, nextOid)
    /\ UNCHANGED <<handleVars, upd, conversations>>

\* a call of verify_auth_token
VerifyAuthToken(user_id, session_token) ==
    /\ last' = [op |-> "verify_auth_token",
                args |-> <<user_id, session_token>>,
                out |-> verify_auth_token(user_id, session_token)]
    /\ UNCHANGED <<handleVars, upd, storeVars, regVars>>

\* ------------------------------------------------- MongoHandler.__new__
NoHandle == [instance |-> 0, db |-> 0]

\* __new__ entered without the test of cls._instance: it always initializes
NewCheck_NoTest(c, uri) ==
    /\ newpc[c] = "idle"
    /\ newuri' = [newuri EXCEPT ![c] = uri]
    /\ newpc' = [newpc EXCEPT ![c] = "instance"]
    /\ UNCHANGED <<instance, client, db, clients, handle, dataVars>>

\* line 16: a caller enters __new__(cls, uri) and tests cls._instance is None
NewCheck(c, uri) ==
    /\ newpc[c] = "idle"
    /\ newuri' = [newuri EXCEPT ![c] = uri]
    /\ newpc' = [newpc EXCEPT ![c] = IF instance = 0 THEN "instance" ELSE "return"]
    /\ UNCHANGED <<instance, client, db, clients, handle, dataVars>>

\* line 17: cls._instance = super().__new__(cls)
NewInstance(c) ==
    /\ newpc[c] = "instance"
    /\ instance' = c
    /\ newpc' = [newpc EXCEPT ![c] = "client"]
    /\ UNCHANGED <<client, db, clients, newuri, handle, dataVars>>

\* line 18: cls._client = MongoClient(uri)
NewClient(c) ==
    /\ newpc[c] = "client"
    /\ clients' = Append(clients, newuri[c])
    /\ client' = Len(clients) + 1
    /\ newpc' = [newpc EXCEPT ![c] = "db"]
    /\ UNCHANGED <<instance, db, newuri, handle, dataVars>>

\* line 19: cls.db = cls._client["askage"]
NewDb(c) ==
    /\ newpc[c] = "db"
    /\ db' = client
    /\ newpc' = [newpc EXCEPT ![c] = "return"]
    /\ UNCHANGED <<instance, client, clients, newuri, handle, dataVars>>

\* line 21: return cls._instance
NewReturn(c) ==
    /\ newpc[c] = "return"
    /\ handle' = [handle EXCEPT ![c] = [instance |-> instance, db |-> db]]
    /\ newpc' = [newpc EXCEPT ![c] = "done"]
    /\ UNCHANGED <<instance, client, db, clients, newuri, dataVars>>

\* ---------------------------------------------- conversations collection
\* Exception(f"MongoDB error: {e}") / Exception(f"Error: {e}")
Wrapped(prefix, e) == [exc |-> "Exception", arg |-> <<prefix, e>>]

\* the lookup with "user_id" left out of the filter
FindConversation_IdOnly(user_id, conversation_id) ==
    LET oid == ObjectId(conversation_id)
    IN IF oid \in DOMAIN conversations THEN oid ELSE 0

\* collection.find_one({"_id": ObjectId(conversation_id), "user_id": user_id})
\* for a valid conversation_id: the _id of the matching document, 0 for None
FindConversation(user_id, conversation_id) ==
    LET oid == ObjectId(conversation_id)
    IN IF oid \in DOMAIN conversations /\ conversations[oid].user_id = user_id
       THEN oid ELSE 0

\* get_prompt_suggestions(user_id, conversation_id)
get_prompt_suggestions(user_id, conversation_id) ==
    IF ~ObjectIdValid(conversation_id)
    THEN Raise(Wrapped("MongoDB error: ", InvalidId(conversation_id)))
    ELSE LET result == FindConversation(user_id, conversation_id)
         IN IF result = 0
            THEN Raise(Wrapped("MongoDB error: ", NoneSubscript))
            ELSE Return(conversations[result].prompt_suggestions)

\* get_chat_history with "user_id" left out of its filter
get_chat_history_IdOnly(user_id, conversation_id) ==
    IF ~ObjectIdValid(conversation_id)
    THEN Raise(Wrapped("MongoDB error: ", InvalidId(conversation_id)))
    ELSE LET result == FindConversation_IdOnly(user_id, conversation_id)
         IN IF result = 0
            THEN Raise(Wrapped("MongoDB error: ", NoneSubscript))
            ELSE Return(conversations[result].history)

\* get_chat_history(user_id, conversation_id)
get_chat_history(user_id, conversation_id) ==
    IF ~ObjectIdValid(conversation_id)
    THEN Raise(Wrapped("MongoDB error: ", InvalidId(conversation_id)))
    ELSE LET result == FindConversation(user_id, conversation_id)
         IN IF result = 0
            THEN Raise(Wrapped("MongoDB error: ", NoneSubscript))
            ELSE Return(conversations[result].history)

\* verify_conversation answering False in its except clause
verify_conversation_Swallow(user_id, conversation_id) ==
    IF ~ObjectIdValid(conversation_id)
    THEN Return(FALSE)
    ELSE Return(FindConversation(user_id, conversation_id) # 0)

\* verify_conversation(user_id, conversation_id)
verify_conversation(user_id, conversation_id) ==
    IF ~ObjectIdValid(conversation_id)
    THEN Raise(Wrapped("Error: ", InvalidId(conversation_id)))
    ELSE Return(FindConversation(user_id, conversation_id) # 0)

\* update_chat_history returning modified_count > 0 in place of matched_count > 0
update_chat_history_Modified(user_id, conversation_id, history) ==
    IF ~ObjectIdValid(conversation_id)
    THEN Raise(Wrapped("MongoDB error: ", InvalidId(conversation_id)))
    ELSE LET matched == FindConversation(user_id, conversation_id)
         IN Return(matched # 0 /\ conversations[matched].history # history)

\* the outcome of update_chat_history(user_id, conversation_id, history)
update_chat_history(user_id, conversation_id, history) ==
    IF ~ObjectIdValid(conversation_id)
    THEN Raise(Wrapped("MongoDB error: ", InvalidId(conversation_id)))
    ELSE Return(FindConversation(user_id, conversation_id) # 0)

\* update_one with "user_id" left out of the filter
UpdateOneHistory_IdOnly(user_id, conversation_id, history) ==
    IF ~ObjectIdValid(conversation_id) THEN conversations
    ELSE LET oid == ObjectId(conversation_id)
         IN IF oid \notin DOMAIN conversations THEN conversations
            ELSE [conversations EXCEPT ![oid].history = history]

\* update_one that appends to the stored history instead of replacing it
UpdateOneHistory_Push(user_id, conversation_id, history) ==
    IF ~ObjectIdValid(conversation_id) THEN conversations
    ELSE LET oid == ObjectId(conversation_id)
         IN IF oid \notin DOMAIN conversations
               \/ conversations[oid].user_id # user_id
            THEN conversations
            ELSE [conversations EXCEPT ![oid].history = @ \o history]

\* update_one that stores the history without its first element
UpdateOneHistory_DropFirst(user_id, conversation_id, history) ==
    IF ~ObjectIdValid(conversation_id) THEN conversations
    ELSE LET matched == FindConversation(user_id, conversation_id)
         IN IF matched = 0 THEN conversations
            ELSE [conversations EXCEPT ![matched].history =
                     IF history = <<>> THEN <<>> ELSE Tail(history)]

\* update_one whose $set also writes the caller's user_id
UpdateOneHistory_TakeOver(user_id, conversation_id, history) ==
    IF ~ObjectIdValid(conversation_id) THEN conversations
    ELSE LET oid == ObjectId(conversation_id)
         IN IF oid \notin DOMAIN conversations THEN conversations
            ELSE [conversations EXCEPT ![oid].history = history,
                                       ![oid].user_id = user_id]

\* a replace_one in place of the $set: the other fields are not kept
UpdateOneHistory_Replace(user_id, conversation_id, history) ==
    IF ~ObjectIdValid(conversation_id) THEN conversations
    ELSE LET matched == FindConversation(user_id, conversation_id)
         IN IF matched = 0 THEN conversations
            ELSE [conversations EXCEPT ![matched].history = history,
                                       ![matched].prompt_suggestions = <<>>]

\* the collection after update_one(filter, {"$set": {"history": history}})
UpdateOneHistory(user_id, conversation_id, history) ==
    IF ~ObjectIdValid(conversation_id) THEN conversations
    ELSE LET matched == FindConversation(user_id, conversation_id)
         IN IF matched = 0 THEN conversations
            ELSE [conversations EXCEPT ![matched].history = history]

\* a document inserted without the seeded system message
NewConversationDoc_NoSeed(user_id, suggestions) ==
    [user_id |-> user_id,
     history |-> <<>>,
     prompt_suggestions |-> suggestions]

\* the document new_conversation inserts
NewConversationDoc(user_id, suggestions) ==
    [user_id |-> user_id,
     history |-> <<SystemMessage>>,
     prompt_suggestions |-> suggestions]

\* a call of new_conversation
NewConversation(user_id, suggestions) ==
    /\ Cardinality(DOMAIN conversations) < MaxConvs
    /\ conversations' = [o \in DOMAIN conversations \cup {nextOid} |->
                           IF o = nextOid
                           THEN NewConversationDoc(user_id, suggestions)
                           ELSE conversations[o]]
    /\ nextOid' = nextOid + 1
    /\ last' = [op |-> "new_conversation",
                args |-> <<user_id, suggestions>>,
                out |-> Return(ObjectIdStr(nextOid))]
    /\ UNCHANGED <<handleVars, upd, users, regVars>>

\* a call of get_prompt_suggestions
GetPromptSuggestions(user_id, conversation_id) ==
    /\ last' = [op |-> "get_prompt_suggestions",
                args |-> <<user_id, conversation_id>>,
                out |-> get_prompt_suggestions(user_id, conversation_id)]
    /\ UNCHANGED <<handleVars, upd, storeVars, regVars>>

\* a call of get_chat_history
GetChatHistory(user_id, conversation_id) ==
    /\ last' = [op |-> "get_chat_history",
                args |-> <<user_id, conversation_id>>,
                out |-> get_chat_history(user_id, conversation_id)]
    /\ UNCHANGED <<handleVars, upd, storeVars, regVars>>

\* a call of update_chat_history
UpdateChatHistory(user_id, conversation_id, history) ==
    /\ conversations' = UpdateOneHistory(user_id, conversation_id, history)
    /\ last' = [op |-> "update_chat_history",
                args |-> <<user_id, conversation_id, history>>,
                out |-> update_chat_history(user_id, conversation_id, history)]
    /\ UNCHANGED <<handleVars, upd, users, nextOid, regVars>>

\* a call of verify_conversation
VerifyConversation(user_id, conversation_id) ==
    /\ last' = [op |-> "verify_conversation",
                args |-> <<user_id, conversation_id>>,
                out |-> verify_conversation(user_id, conversation_id)]
    /\ UNCHANGED <<handleVars, upd, storeVars, regVars>>

\* ------------------------------------------------------ the data operations
NoOp == [op |-> "none", args |-> <<>>, out |-> Return(FALSE)]

\* the state once MongoHandler(uri) has been constructed and nothing is stored
Init ==
    /\ instance = 1
    /\ client = 1
    /\ db = 1
    /\ clients = <<"mongodb://a">>
    /\ newpc = [c \in Callers |-> "done"]
    /\ newuri = [c \in Callers |-> "mongodb://a"]
    /\ handle = [c \in Callers |-> [instance |-> 1, db |-> 1]]
    /\ users = <<>>
    /\ conversations = <<>>
    /\ nextOid = 1
    /\ pc = [t \in Logins |-> "idle"]
    /\ reg = [t \in Logins |-> NoRegLocals]
    /\ issued = <<>>
    /\ last = NoOp
    /\ upd = [w \in Updaters |-> NoUpdLocals]

\* the operations on the users collection: every register_google_user call
\* runs in a thread of its own and the calls interleave at their store
\* requests (one call after another is one of the interleavings);
\* verify_auth_token is one store request, whichever thread makes it
NextAuth ==
    \/ \E t \in Logins :
          \/ \E google_sub \in SubInputs, email \in EmailInputs :
                RegStart(t, google_sub, email)
          \/ RegFind(t)
          \/ RegUpdate(t)
          \/ RegInsert(t)
    \/ \E user_id \in UserIdInputs, session_token \in TokenInputs :
          VerifyAuthToken(user_id, session_token)

\* the operations on the conversations collection: each is one store request
NextConv ==
    \/ \E user_id \in OwnerInputs, suggestions \in SuggestionInputs :
          NewConversation(user_id, suggestions)
    \/ \E user_id \in OwnerInputs, conversation_id \in ConvIdInputs :
          GetPromptSuggestions(user_id, conversation_id)
    \/ \E user_id \in OwnerInputs, conversation_id \in ConvIdInputs :
          GetChatHistory(user_id, conversation_id)
    \/ \E user_id \in OwnerInputs, conversation_id \in ConvIdInputs,
          history \in HistoryInputs :
          UpdateChatHistory(user_id, conversation_id, history)
    \/ \E user_id \in OwnerInputs, conversation_id \in ConvIdInputs :
          VerifyConversation(user_id, conversation_id)

SpecAuth == Init /\ [][NextAuth]_vars

SpecConv == Init /\ [][NextConv]_vars

\* ------------------------------------------------- logins of a known user
\* the token the earlier login of g1 got: a value none of the Logins gets
EarlierToken == ToHex(0, 2 * TokenBytes)

\* the state after register_google_user("g1", "a@x") on the empty store
InitRegistered ==
    /\ instance = 1
    /\ client = 1
    /\ db = 1
    /\ clients = <<"mongodb://a">>
    /\ newpc = [c \in Callers |-> "done"]
    /\ newuri = [c \in Callers |-> "mongodb://a"]
    /\ handle = [c \in Callers |-> [instance |-> 1, db |-> 1]]
    /\ users = <<[google_sub |-> "g1", session_token |-> EarlierToken,
                  email |-> "a@x"]>>
    /\ conversations = <<>>
    /\ nextOid = 2
    /\ pc = [t \in Logins |-> "idle"]
    /\ reg = [t \in Logins |-> NoRegLocals]
    /\ issued = <<[google_sub |-> "g1", cred |-> Credential(1, EarlierToken)]>>
    /\ last = [op |-> "register_google_user",
               args |-> <<"g1", "a@x">>,
               out |-> Return(Credential(1, EarlierToken))]
    /\ upd = [w \in Updaters |-> NoUpdLocals]

\* register_google_user called from several threads once g1 is registered
NextRelogin ==
    \E t \in Logins :
       \/ \E google_sub \in GoogleSubs, email \in Emails :
             RegStart(t, google_sub, email)
       \/ RegFind(t)
       \/ RegUpdate(t)
       \/ RegInsert(t)

SpecRelogin == InitRegistered /\ [][NextRelogin]_vars

\* --------------------------------------- concurrent update_chat_history
\* a thread enters update_chat_history(user_id, conversation_id, history)
UpdCall(w, user_id, conversation_id, history) ==
    /\ upd[w].pc = "idle"
    /\ upd' = [upd EXCEPT ![w] = [pc |-> "update_one",
                                  args |-> <<user_id, conversation_id, history>>,
                                  out |-> Return(FALSE)]]
    /\ UNCHANGED <<handleVars, storeVars, regVars, last>>

\* lines 153-160: ObjectId(conversation_id) and the update_one request, which
\* the store applies to the one document atomically
UpdUpdateOne(w) ==
    /\ upd[w].pc = "update_one"
    /\ LET user_id == upd[w].args[1]
           conversation_id == upd[w].args[2]
           history == upd[w].args[3]
       IN /\ conversations' = UpdateOneHistory(user_id, conversation_id, history)
          /\ upd' = [upd EXCEPT
                       ![w].pc = "return",
                       ![w].out = update_chat_history(user_id, conversation_id,
                                                      history)]
    /\ UNCHANGED <<handleVars, users, nextOid, regVars, last>>

\* lines 160-163: the thread returns matched_count > 0, or raises
UpdReturn(w) ==
    /\ upd[w].pc = "return"
    /\ upd' = [upd EXCEPT ![w].pc = "done", ![w].args = <<>>]
    /\ UNCHANGED <<handleVars, storeVars, regVars, last>>

\* the state after new_conversation(ObjectIdStr(1), <<"s1", "s2">>) on the
\* empty store
InitUpd ==
    /\ instance = 1
    /\ client = 1
    /\ db = 1
    /\ clients = <<"mongodb://a">>
    /\ newpc = [c \in Callers |-> "done"]
    /\ newuri = [c \in Callers |-> "mongodb://a"]
    /\ handle = [c \in Callers |-> [instance |-> 1, db |-> 1]]
    /\ users = <<>>
    /\ conversations = <<NewConversationDoc(ObjectIdStr(1), <<"s1", "s2">>)>>
    /\ nextOid = 2
    /\ pc = [t \in Logins |-> "idle"]
    /\ reg = [t \in Logins |-> NoRegLocals]
    /\ issued = <<>>
    /\ last = [op |-> "new_conversation",
               args |-> <<ObjectIdStr(1), <<"s1", "s2">>>>,
               out |-> Return(ObjectIdStr(1))]
    /\ upd = [w \in Updaters |-> NoUpdLocals]

\* update_chat_history called from several threads at once
NextUpd ==
    \E w \in Updaters :
       \/ \E user_id \in OwnerInputs, conversation_id \in ConvIdInputs,
             history \in HistoryInputs :
             UpdCall(w, user_id, conversation_id, history)
       \/ UpdUpdateOne(w)
       \/ UpdReturn(w)

SpecUpd == InitUpd /\ [][NextUpd]_vars

\* ------------------------------------------------------- process start
\* the class before any MongoHandler(uri) call
InitNew ==
    /\ instance = 0
    /\ client = 0
    /\ db = 0
    /\ clients = <<>>
    /\ newpc = [c \in Callers |-> "idle"]
    /\ newuri = [c \in Callers |-> ""]
    /\ handle = [c \in Callers |-> NoHandle]
    /\ users = <<>>
    /\ conversations = <<>>
    /\ nextOid = 1
    /\ pc = [t \in Logins |-> "idle"]
    /\ reg = [t \in Logins |-> NoRegLocals]
    /\ issued = <<>>
    /\ last = NoOp
    /\ upd = [w \in Updaters |-> NoUpdLocals]

\* the callers of MongoHandler(uri)
NextNew ==
    \E c \in Callers :
       \/ \E uri \in Uris : NewCheck(c, uri)
       \/ NewInstance(c)
       \/ NewClient(c)
       \/ NewDb(c)
       \/ NewReturn(c)

SpecNew == InitNew /\ [][NextNew]_vars

\* =================================================================== claims
IsLogin(l) == l.op = "register_google_user" /\ l.out.kind = "return"

\* the well-formed ids that name no document of a collection c
AbsentIds(c, inputs) == {s \in inputs : ObjectIdValid(s) /\ ObjectId(s) \notin DOMAIN c}

\* C1: the users collection never holds two documents with the same google_sub
C1_OneUserPerSub ==
    \A a, b \in DOMAIN users :
       users[a].google_sub = users[b].google_sub => a = b

\* C2: every verify_auth_token call returns (never raises), and returns false
\* for a malformed user_id and for a user_id that names no document
C2_VerifyTotal ==
    last.op = "verify_auth_token" =>
       /\ last.out.kind = "return"
       /\ (~ObjectIdValid(last.args[1])
           \/ ObjectId(last.args[1]) \notin DOMAIN users) => last.out.val = FALSE

\* C3: in the state register_google_user returns in, verify_auth_token on the
\* two halves of the returned credential is true, is false for that user_id
\* with any other token, and is false for every id that names no user document
C3_VerifyAfterLogin ==
    IsLogin(last) =>
       LET user_id == CredUserId(last.out.val)
           token == CredToken(last.out.val)
       IN /\ verify_auth_token(user_id, token) = Return(TRUE)
          /\ \A t \in TokenInputs \ {token} :
                verify_auth_token(user_id, t) = Return(FALSE)
          /\ \A u \in AbsentIds(users, UserIdInputs), t \in TokenInputs :
                verify_auth_token(u, t) = Return(FALSE)

C3_Witness ==
    /\ IsLogin(last)
    /\ Len(issued) = 2
    /\ issued[1].google_sub = issued[2].google_sub
    /\ AbsentIds(users, UserIdInputs) # {}

\* C4: two register_google_user calls with the same google_sub return the same
\* user_id, and the later call's session token differs from the earlier one's
C4_SameUserNewToken ==
    \A i, j \in 1..Len(issued) :
       (i < j /\ issued[i].google_sub = issued[j].google_sub) =>
          /\ CredUserId(issued[i].cred) = CredUserId(issued[j].cred)
          /\ CredToken(issued[i].cred) # CredToken(issued[j].cred)

\* C5: once a later login of the same google_sub has returned, no credential
\* an earlier login of that google_sub returned passes verify_auth_token
C5_OnlyLatestVerifies ==
    \A i, j \in 1..Len(issued) :
       (i < j /\ issued[i].google_sub = issued[j].google_sub) =>
          verify_auth_token(CredUserId(issued[i].cred),
                            CredToken(issued[i].cred)) = Return(FALSE)

\* two outcomes are the same return value or the same error
SameOutcome(x, y) ==
    /\ x.kind = y.kind
    /\ IF x.kind = "raise" THEN x.err = y.err ELSE x.val = y.val

\* the ids of the stored conversations that user_id does not own
ForeignIds(user_id) ==
    {s \in ConvIdInputs : /\ ObjectIdValid(s)
                          /\ ObjectId(s) \in DOMAIN conversations
                          /\ conversations[ObjectId(s)].user_id # user_id}

\* C6: on a conversation of another user, get_chat_history,
\* get_prompt_suggestions and verify_conversation give the outcome they give
\* on an id that names no conversation: the same error for the two getters,
\* false for verify_conversation
C6_ForeignLooksAbsent ==
    \A v \in OwnerInputs \cup {BadId} :
       \A c \in ForeignIds(v), a \in AbsentIds(conversations, ConvIdInputs) :
          /\ get_chat_history(v, c).kind = "raise"
          /\ SameOutcome(get_chat_history(v, c), get_chat_history(v, a))
          /\ get_prompt_suggestions(v, c).kind = "raise"
          /\ SameOutcome(get_prompt_suggestions(v, c),
                         get_prompt_suggestions(v, a))
          /\ verify_conversation(v, c) = Return(FALSE)
          /\ verify_conversation(v, a) = Return(FALSE)

C6_Witness ==
    /\ last.op = "get_chat_history"
    /\ last.out.kind = "raise"
    /\ last.args[2] \in ForeignIds(last.args[1])

\* C7: an update_chat_history call whose well-formed (user_id, conversation_id)
\* pair matches no conversation returns false and changes no conversation
C7_NoMatchNoChange ==
    [][ ( /\ last'.op = "update_chat_history"
          /\ ObjectIdValid(last'.args[2])
          /\ FindConversation(last'.args[1], last'.args[2]) = 0 )
        => ( /\ last'.out = Return(FALSE)
             /\ conversations' = conversations ) ]_vars

C7_Witness ==
    /\ last.op = "update_chat_history"
    /\ last.out = Return(FALSE)
    /\ last.args[2] \in ForeignIds(last.args[1])
    /\ conversations[ObjectId(last.args[2])].history # last.args[3]

\* C8: in the state new_conversation(user_id, S) returns id in,
\* get_chat_history(user_id, id) is the one fixed system message and
\* get_prompt_suggestions(user_id, id) is S
C8_CreateThenRead ==
    last.op = "new_conversation" =>
       LET user_id == last.args[1]
           S == last.args[2]
           id == last.out.val
       IN /\ get_chat_history(user_id, id) = Return(<<SystemMessage>>)
          /\ Len(get_chat_history(user_id, id).val) = 1
          /\ get_chat_history(user_id, id).val[1].role = "system"
          /\ get_chat_history(user_id, id).val[1].content = SystemContent
          /\ get_prompt_suggestions(user_id, id) = Return(S)

C8_Witness ==
    /\ last.op = "new_conversation"
    /\ last.args[2] = <<"s1", "s2">>
    /\ get_prompt_suggestions(last.args[1], last.out.val) = Return(<<"s1", "s2">>)

\* C9: in the state update_chat_history(user_id, id, H) completes in on a
\* conversation user_id owns, it has returned true and
\* get_chat_history(user_id, id) is H
C9_UpdateRoundTrip ==
    ( /\ last.op = "update_chat_history"
      /\ ObjectIdValid(last.args[2])
      /\ FindConversation(last.args[1], last.args[2]) # 0 )
    => ( /\ last.out = Return(TRUE)
         /\ get_chat_history(last.args[1], last.args[2]) = Return(last.args[3]) )

C9_Witness ==
    /\ last.op = "update_chat_history"
    /\ last.out = Return(TRUE)
    /\ last.args[3] # <<>>
    /\ get_chat_history(last.args[1], last.args[2]) = Return(last.args[3])

\* C10: MongoClient is constructed at most once, and every caller __new__ has
\* returned to got the handle when cls.db was already set
C10_InitOnceAndComplete ==
    /\ Len(clients) <= 1
    /\ \A c \in Callers : newpc[c] = "done" => handle[c].db # 0

\* a MongoHandler(uri) call by c that runs on its own after an earlier call
\* has returned: no other caller is inside __new__
AloneAfterFirst(c) ==
    /\ \A d \in Callers \ {c} : newpc[d] \in {"idle", "done"}
    /\ \E d \in Callers \ {c} : newpc[d] = "done"

\* C11: a MongoHandler(uri) call made after an earlier call has returned, with
\* no other call in progress, skips the initialization whatever uri it passes
\* (no MongoClient is built, _client and db are not rebound, _instance stays)
\* and returns cls._instance, the object an earlier call returned
C11_SequentialCallReuses ==
    [][ \A c \in Callers :
          /\ ( /\ AloneAfterFirst(c)
               /\ newpc[c] = "idle"
               /\ newpc'[c] # "idle" )
             => ( /\ newpc'[c] = "return"
                  /\ <<instance, client, db, clients>>' = <<instance, client, db, clients>>
                  /\ \E d \in Callers \ {c} :
                        newpc[d] = "done" /\ handle[d].instance = instance )
          /\ ( /\ AloneAfterFirst(c)
               /\ newpc[c] = "return"
               /\ newpc'[c] = "done" )
             => ( /\ handle'[c].instance = instance
                  /\ <<instance, client, db, clients>>' = <<instance, client, db, clients>> ) ]_vars

C11_Witness ==
    /\ \A c \in Callers : newpc[c] = "done"
    /\ \E c, d \in Callers : newuri[c] # newuri[d]
    /\ Len(clients) = 1
    /\ \A c, d \in Callers : handle[c] = handle[d]
    /\ \A c \in Callers : handle[c].db = 1

\* history[0] of a history is the fixed system message
HeadIsSystem(history) == Len(history) >= 1 /\ history[1] = SystemMessage

\* the original statement of C12: in every state, history[0] of every stored
\* conversation is the fixed system message
C12_SystemMessageAlways ==
    \A o \in DOMAIN conversations : HeadIsSystem(conversations[o].history)

\* C12: new_conversation stores a history whose first element is the fixed
\* system message, and a stored history that starts with it still starts with
\* it after every step other than an update_chat_history call that is passed
\* a history which does not start with it
C12_SystemMessageKeptByCallers ==
    [][ /\ \A o \in DOMAIN conversations' \ DOMAIN conversations :
              conversations'[o].history = <<SystemMessage>>
        /\ \A o \in DOMAIN conversations :
              ( /\ HeadIsSystem(conversations[o].history)
                /\ (last'.op = "update_chat_history"
                       => HeadIsSystem(last'.args[3])) )
              => ( /\ o \in DOMAIN conversations'
                   /\ HeadIsSystem(conversations'[o].history) ) ]_vars

C12_Witness ==
    /\ last.op = "update_chat_history"
    /\ last.out = Return(TRUE)
    /\ HeadIsSystem(last.args[3])
    /\ Len(last.args[3]) = 2
    /\ \E o \in DOMAIN conversations : conversations[o].history = last.args[3]

\* C13: every step keeps every stored conversation, with the user_id it has:
\* the user_id new_conversation stored is the document's user_id ever after
C13_OwnerNeverChanges ==
    [][ /\ \A o \in DOMAIN conversations :
              /\ o \in DOMAIN conversations'
              /\ conversations'[o].user_id = conversations[o].user_id
        /\ \A o \in DOMAIN conversations' \ DOMAIN conversations :
              /\ last'.op = "new_conversation"
              /\ conversations'[o].user_id = last'.args[1] ]_vars

C13_Witness ==
    /\ last.op = "update_chat_history"
    /\ last.out = Return(TRUE)
    /\ \E o \in DOMAIN conversations :
          /\ conversations[o].user_id = ObjectIdStr(2)
          /\ conversations[o].history = <<>>

\* C14: the prompt_suggestions of a conversation are the list passed to
\* new_conversation, no step changes them, and get_prompt_suggestions by the
\* owner returns the stored list in the state every step starts in
C14_SuggestionsFixed ==
    [][ /\ \A o \in DOMAIN conversations :
              /\ o \in DOMAIN conversations'
              /\ conversations'[o].prompt_suggestions
                    = conversations[o].prompt_suggestions
              /\ get_prompt_suggestions(conversations[o].user_id, ObjectIdStr(o))
                    = Return(conversations[o].prompt_suggestions)
        /\ \A o \in DOMAIN conversations' \ DOMAIN conversations :
              /\ last'.op = "new_conversation"
              /\ conversations'[o].user_id = last'.args[1]
              /\ conversations'[o].prompt_suggestions = last'.args[2] ]_vars

C14_Witness ==
    /\ last.op = "get_prompt_suggestions"
    /\ last.out = Return(<<"s1", "s2">>)
    /\ \E o \in DOMAIN conversations : conversations[o].history # <<SystemMessage>>

\* updater w makes its update_one request in this step
Writes(w) == upd[w].pc = "update_one" /\ upd'[w].pc = "return"

\* the call updater w is inside is by the owner of a stored conversation
ByOwner(w) ==
    /\ ObjectIdValid(upd[w].args[2])
    /\ FindConversation(upd[w].args[1], upd[w].args[2]) # 0

\* C15: with update_chat_history calls in flight in several threads, every
\* call by the owner returns true and its write sets the stored history to
\* exactly the history it was passed (the last write wins), and a stored
\* history changes in no other way: in every state it is the previous history
\* or the whole history of one of the calls
C15_ConcurrentUpdatesWhole ==
    [][ /\ \A w \in Updaters :
              (Writes(w) /\ ByOwner(w)) =>
                 /\ upd'[w].out = Return(TRUE)
                 /\ conversations' =
                       [conversations EXCEPT
                          ![ObjectId(upd[w].args[2])].history = upd[w].args[3]]
        /\ \A w \in Updaters :
              (upd[w].pc = "return" /\ upd'[w].pc = "done") =>
                 /\ upd'[w].out = upd[w].out
                 /\ conversations' = conversations
        /\ \A o \in DOMAIN conversations :
              /\ o \in DOMAIN conversations'
              /\ \/ conversations'[o] = conversations[o]
                 \/ \E w \in Updaters :
                       /\ Writes(w)
                       /\ ByOwner(w)
                       /\ ObjectId(upd[w].args[2]) = o
                       /\ conversations'[o] =
                             [conversations[o] EXCEPT !.history = upd[w].args[3]]
      ]_vars

C15_Witness ==
    \E w, v \in Updaters :
       /\ upd[w].pc = "return"
       /\ upd[w].out = Return(TRUE)
       /\ upd[v].pc = "update_one"
       /\ upd[v].args[1] = upd[w].args[1]
       /\ upd[v].args[2] = upd[w].args[2]
       /\ upd[v].args[3] # upd[w].args[3]
       /\ ByOwner(v)
       /\ conversations[ObjectId(upd[w].args[2])].history = upd[w].args[3]

\* an argument that is missing (None) or the empty string
EmptyOrMissing(x) == x \in {None, ""}

\* C16: a register_google_user call whose google_sub or email is empty or
\* missing raises in its first step, returns no credential and leaves the
\* users collection as it is; a call that goes on to the store has both
\* arguments non-empty, so no such value is ever inserted or $set
C16_EmptyInputRejected ==
    [][ /\ \A t \in Logins :
              (pc[t] = "idle" /\ pc'[t] # "idle") =>
                 IF pc'[t] = "done"
                 THEN /\ last'.op = "register_google_user"
                      /\ \/ EmptyOrMissing(last'.args[1])
                         \/ EmptyOrMissing(last'.args[2])
                      /\ last'.out.kind = "raise"
                      /\ users' = users
                      /\ issued' = issued
                 ELSE /\ ~EmptyOrMissing(reg'[t].google_sub)
                      /\ ~EmptyOrMissing(reg'[t].email)
        /\ \A o \in DOMAIN users' :
              /\ ~EmptyOrMissing(users'[o].google_sub)
              /\ ~EmptyOrMissing(users'[o].email)
        /\ \A i \in 1..Len(issued') : ~EmptyOrMissing(issued'[i].google_sub)
      ]_vars

C16_Witness ==
    /\ last.op = "register_google_user"
    /\ last.out.kind = "raise"
    /\ last.args[1] = "g1"
    /\ last.args[2] = ""
    /\ \E o \in DOMAIN users : users[o].google_sub = "g1"
    /\ Len(issued) = 1

\* login t makes its store write and returns in this step
Completes(t) == pc[t] \in {"update_one", "insert_one"} /\ pc'[t] = "done"

\* what C17 says of one step
UsersLifecycleStep ==
    /\ \A o \in DOMAIN users :
          /\ o \in DOMAIN users'
          /\ users'[o].google_sub = users[o].google_sub
    /\ \A t \in Logins :
          Completes(t) =>
             LET known == {o \in DOMAIN users :
                             users[o].google_sub = reg[t].google_sub}
             IN /\ IF known = {}
                   THEN \E o \in DOMAIN users' \ DOMAIN users :
                           /\ DOMAIN users' = DOMAIN users \cup {o}
                           /\ users'[o].google_sub = reg[t].google_sub
                           /\ users'[o].email = reg[t].email
                           /\ \A q \in DOMAIN users : users'[q] = users[q]
                   ELSE \E o \in known :
                           users' = [users EXCEPT
                                       ![o].email = reg[t].email,
                                       ![o].session_token = reg[t].session_token]
                /\ conversations' = conversations

\* C17: no step deletes a user document or changes its identity; the login
\* that completes for a google_sub no document has adds exactly one document,
\* the login that completes for a google_sub that has one updates exactly
\* that document (email and session_token, same _id), and no login changes
\* another user's document or a conversation
C17_UsersLifecycle == [][UsersLifecycleStep]_vars

\* C18: a verify_conversation call changes nothing in the store; for a
\* malformed conversation_id it raises Exception("Error: ...") and returns
\* nothing; for a well-formed one it returns, true when a document has that
\* _id and that user_id, false when none has
C18_VerifyConversationOutcome ==
    [][ last'.op = "verify_conversation" =>
          LET user_id == last'.args[1]
              conversation_id == last'.args[2]
              matches == {o \in DOMAIN conversations :
                            /\ ObjectIdStr(o) = conversation_id
                            /\ conversations[o].user_id = user_id}
          IN /\ <<users, conversations, nextOid>>' = <<users, conversations, nextOid>>
             /\ IF conversation_id \in [1..OidHexLen -> 0..15]
                THEN /\ last'.out.kind = "return"
                     /\ last'.out.val = (matches # {})
                ELSE /\ last'.out.kind = "raise"
                     /\ last'.out.err.exc = "Exception"
                     /\ last'.out.err.arg[1] = "Error: " ]_vars

C18_Witness ==
    /\ last.op = "verify_conversation"
    /\ last.out.kind = "raise"
    /\ last.args[2] = BadId
    /\ conversations # <<>>

\* the stored conversation with id c has user_id u: by C13 that is the
\* user_id it was created with
CreatedBy(u, c) ==
    \E o \in DOMAIN conversations :
       ObjectIdStr(o) = c /\ conversations[o].user_id = u

\* C19: for every user_id u and well-formed conversation id c,
\* verify_conversation(u, c) returns true, get_chat_history(u, c) and
\* get_prompt_suggestions(u, c) return, and update_chat_history(u, c, H)
\* returns true and writes, exactly when the conversation c was created by u;
\* otherwise the first and the last return false and the getters raise
C19_AccessPathsAgree ==
    \A u \in OwnerInputs, c \in ConvIdInputs \ {BadId} :
       /\ verify_conversation(u, c) = Return(CreatedBy(u, c))
       /\ (get_chat_history(u, c).kind = "return") = CreatedBy(u, c)
       /\ (get_prompt_suggestions(u, c).kind = "return") = CreatedBy(u, c)
       /\ \A H \in HistoryInputs :
             /\ update_chat_history(u, c, H) = Return(CreatedBy(u, c))
             /\ ~CreatedBy(u, c) => UpdateOneHistory(u, c, H) = conversations

C19_Witness ==
    /\ last.op = "verify_conversation"
    /\ last.out = Return(TRUE)
    /\ CreatedBy(ObjectIdStr(2), last.args[2])
    /\ ~CreatedBy(ObjectIdStr(1), last.args[2])

\* the credentials returned so far to logins of g1
IssuedToG1 == {i \in 1..Len(issued) : issued[i].google_sub = "g1"}

\* the credentials returned to g1 that pass verify_auth_token
VerifyingG1 ==
    {i \in IssuedToG1 :
        verify_auth_token(CredUserId(issued[i].cred),
                          CredToken(issued[i].cred)) = Return(TRUE)}

\* no login of g1 is between its find_one and its return
NoG1InFlight ==
    \A t \in Logins :
       pc[t] \in {"find_one", "update_one", "insert_one"}
          => reg[t].google_sub # "g1"

\* every credential g1 got names the one user, and once the logins of g1
\* have returned exactly one of the credentials verifies
C20_State ==
    /\ \A i \in IssuedToG1 : CredUserId(issued[i].cred) = ObjectIdStr(1)
    /\ NoG1InFlight => Cardinality(VerifyingG1) = 1

\* the document of g1 changes only in the update_one of one login of g1,
\* which writes the email and the session_token of that login together
C20_Step ==
    \A o \in DOMAIN users :
       users[o].google_sub = "g1" =>
          /\ o \in DOMAIN users'
          /\ \/ users'[o] = users[o]
             \/ \E t \in Logins :
                   /\ pc[t] = "update_one"
                   /\ pc'[t] = "done"
                   /\ reg[t].google_sub = "g1"
                   /\ users'[o] = [google_sub |-> "g1",
                                   session_token |-> reg[t].session_token,
                                   email |-> reg[t].email]

\* C20: when logins of the registered g1 interleave, every one returns a
\* credential with the user_id of g1, the stored (email, session_token) is in
\* every state the pair of one single call, and once they have returned
\* exactly one of the returned credentials passes verify_auth_token
C20_InterleavedRelogin == []C20_State /\ [][C20_Step]_vars

C20_Witness ==
    /\ \A t \in Logins : pc[t] = "done"
    /\ Len(issued) = NumLogins + 1
    /\ IssuedToG1 = 1..Len(issued)
    /\ users[1].email = "b@x"
    /\ users[1].session_token = CredToken(issued[Len(issued)].cred)
    /\ Cardinality(VerifyingG1) = 1
====
